---- MODULE Spec2Model ----
(***************************************************************************)
(* Subscription detection of the Treeline "subscriptions" plugin           *)
(* (src/src/SubscriptionsView.svelte).                                     *)
(*                                                                         *)
(* Money is counted in integer cents, dates in integer day numbers, and    *)
(* the SQL averages are exact rationals [num, den] (den > 0); the          *)
(* comparisons and roundings of the code are computed on them exactly.     *)
(***************************************************************************)
EXTENDS Integers, Sequences, FiniteSets, TLC

VARIABLES
    transactions,     \* the host's transactions table: a set of rows
    store,            \* sys_plugin_subscriptions: a sequence of rows
    hiddenMerchants,  \* $state Set<string>
    subscriptions,    \* $state Subscription[]
    isLoading,        \* $state boolean
    mountPc,          \* where the onMount callback stands, and the rows it awaits
    runs,             \* the detectSubscriptions calls in flight, in the order they
                      \* started; superseded marks a run that a later one has outrun
    calls,            \* the hideSubscription / unhideSubscription calls in flight
    toast,            \* the last sdk.toast shown
    emitted,          \* the sdk.emitDataRefresh notifications sent so far
    detectedOn        \* what the run that last assigned subscriptions had read

vars == <<transactions, store, hiddenMerchants, subscriptions, isLoading,
          mountPc, runs, calls, toast, emitted, detectedOn>>

----------------------------------------------------------------------------
(* Bounds of the model *)

\* SpecClassify: the longest charge history of the one merchant
MaxCharges == 4
\* SpecCost: the most rows (charges and deposits) of the one merchant
MaxCostRows == 4
\* SpecRank: the most charges in the ledger, and the most of one merchant
MaxRankRows == 6
MaxPerMerchant == 3
\* Spec: the most detectSubscriptions calls started by the callback or the
\* button and in flight at once, the most hide/unhide calls in flight at
\* once, and the most rows of the ledger
MaxRuns == 1
MaxCalls == 1
MaxLedgerRows == 6
\* SpecMalformed: the longest charge history of the one merchant
MaxMalformedCharges == 4
\* SpecOverride: the most hide/unhide calls in flight at once
MaxOverrideCalls == 1
\* SpecView: the most hide/unhide calls in flight at once
MaxClickCalls == 2

----------------------------------------------------------------------------
(* Program constants *)

\* SQL NULL of a date column (day numbers are >= 0)
NULL == -1
\* SQL NULL of the description column
NullDescription == "<NULL>"

MinIntervalCount == 2
MinAvgInterval == 5
MaxAvgInterval == 400
\* 0.3 as DispersionNum / DispersionDen
DispersionNum == 3
DispersionDen == 10
DaysPerYear == 365
\* the instant NOW() returns
Now == 0
\* the merchants whose rows the view offers to hide or restore
MerchantsView == {"GYM", "NETFLIX"}

----------------------------------------------------------------------------
(* Exact arithmetic *)

Abs(x) == IF x < 0 THEN -x ELSE x

RECURSIVE GCD(_, _)
GCD(a, b) == IF b = 0 THEN a ELSE GCD(b, a % b)

\* the rational n/d, d > 0, in lowest terms
Rat(n, d) ==
    LET g == GCD(Abs(n), d)
    IN  [num |-> n \div g, den |-> d \div g]

RatMul(a, b) == Rat(a.num * b.num, a.den * b.den)

\* a / b for b > 0
RatDiv(a, b) == Rat(a.num * b.den, a.den * b.num)

RatLess(a, b) == a.num * b.den < b.num * a.den

\* Math.round: the nearest integer, halves toward +infinity
MathRound(r) == (2 * r.num + r.den) \div (2 * r.den)

RECURSIVE SumFn(_, _)
SumFn(f, S) ==
    IF S = {} THEN 0
    ELSE LET x == CHOOSE y \in S : TRUE
         IN  f[x] + SumFn(f, S \ {x})

MaxOf(S) == CHOOSE x \in S : \A y \in S : y <= x
MinOf(S) == CHOOSE x \in S : \A y \in S : x <= y

----------------------------------------------------------------------------
(* Calendar dates as day numbers: DATEDIFF('day', a, b) of two dates is the  *)
(* difference of their day numbers (day 0 is 2024-01-01)                    *)

IsLeapYear(y) == (y % 4 = 0 /\ y % 100 # 0) \/ y % 400 = 0

DaysInMonth(y, m) ==
    IF m = 2 THEN (IF IsLeapYear(y) THEN 29 ELSE 28)
    ELSE IF m \in {4, 6, 9, 11} THEN 30
    ELSE 31

RECURSIVE DaysBeforeMonth(_, _)
DaysBeforeMonth(y, m) ==
    IF m = 1 THEN 0 ELSE DaysBeforeMonth(y, m - 1) + DaysInMonth(y, m - 1)

RECURSIVE DaysBeforeYear(_)
DaysBeforeYear(y) ==
    IF y <= 2024 THEN 0
    ELSE DaysBeforeYear(y - 1) + (IF IsLeapYear(y - 1) THEN 366 ELSE 365)

DayNumber(y, m, d) == DaysBeforeYear(y) + DaysBeforeMonth(y, m) + d - 1

----------------------------------------------------------------------------
(* The SQL query of detectSubscriptions *)

\* (faulty variant of Charges: the test amount < 0 left out)
ChargesAnySign(txs) ==
    {t \in txs : t.description # NullDescription /\ t.description # ""}

\* WHERE amount < 0 AND description IS NOT NULL AND description != ''
Charges(txs) ==
    {t \in txs : t.amount < 0
                 /\ t.description # NullDescription
                 /\ t.description # ""}

\* ORDER BY transaction_date within a partition: row u sorts before row t.
\* Where the NULL dates go is the database's default, NULLS FIRST or NULLS
\* LAST; the ledgers hold at most one row without a date per description.
Precedes(u, t, nulls) ==
    IF u.transaction_date = NULL
    THEN nulls = "first" /\ t.transaction_date # NULL
    ELSE IF t.transaction_date = NULL
    THEN nulls = "last"
    ELSE u.transaction_date < t.transaction_date

\* LAG(transaction_date) OVER (PARTITION BY description ORDER BY transaction_date)
Lag(t, W, nulls) ==
    LET earlier == {u \in W : u.description = t.description /\ Precedes(u, t, nulls)}
    IN  IF earlier = {} THEN NULL
        ELSE (CHOOSE u \in earlier :
                 \A v \in earlier : ~Precedes(u, v, nulls)).transaction_date

merchant_transactions(txs, nulls) ==
    LET W == Charges(txs)
    IN  {[merchant |-> t.description,
          amount |-> t.amount,
          transaction_date |-> t.transaction_date,
          prev_date |-> Lag(t, W, nulls)] : t \in W}

\* (faulty variant of DateDiff: both end days counted)
DateDiffInclusive(prev_date, transaction_date) ==
    IF transaction_date = NULL THEN NULL ELSE transaction_date - prev_date + 1

\* DATEDIFF('day', prev_date, transaction_date), NULL when transaction_date is
DateDiff(prev_date, transaction_date) ==
    IF transaction_date = NULL THEN NULL ELSE transaction_date - prev_date

\* ... WHERE prev_date IS NOT NULL
merchant_intervals(txs, nulls) ==
    {[merchant |-> r.merchant,
      amount |-> r.amount,
      transaction_date |-> r.transaction_date,
      interval_days |-> DateDiff(r.prev_date, r.transaction_date)]
        : r \in {q \in merchant_transactions(txs, nulls) : q.prev_date # NULL}}

\* The aggregates of one GROUP BY merchant group: COUNT(*) counts every row,
\* AVG, STDDEV, MAX and MIN pass over the NULLs of their column.
Aggregates(m, intervals) ==
    LET G == {r \in intervals : r.merchant = m}
        V == {r \in G : r.interval_days # NULL}
        D == {r.transaction_date : r \in G} \ {NULL}
    IN  [merchant |-> m,
         count |-> Cardinality(G),
         sum_amount |-> SumFn([r \in G |-> Abs(r.amount)], G),
         count_interval |-> Cardinality(V),
         sum_interval |-> SumFn([r \in V |-> r.interval_days], V),
         sumsq_interval |-> SumFn([r \in V |-> r.interval_days * r.interval_days], V),
         max_date |-> IF D = {} THEN NULL ELSE MaxOf(D),
         min_date |-> IF D = {} THEN NULL ELSE MinOf(D)]

\* (faulty variant of StddevBelow: STDDEV_POP, the population deviation)
StddevBelowPopulation(a) ==
    /\ a.count_interval >= 1
    /\ a.sum_interval > 0
    /\ DispersionDen * DispersionDen
         * (a.count_interval * a.sumsq_interval - a.sum_interval * a.sum_interval)
       < DispersionNum * DispersionNum * a.sum_interval * a.sum_interval

\* STDDEV(interval_days) < AVG(interval_days) * 0.3, STDDEV the sample
\* standard deviation (NULL of fewer than 2 values): with n values, sum S and
\* sum of squares Q,
\*   sqrt((Q - S*S/n) / (n-1)) < (S/n) * p/q
\* which, for n >= 2 and S > 0, is  q*q*n*(n*Q - S*S) < p*p*(n-1)*S*S
StddevBelow(a) ==
    /\ a.count_interval >= 2
    /\ a.sum_interval > 0
    /\ DispersionDen * DispersionDen * a.count_interval
         * (a.count_interval * a.sumsq_interval - a.sum_interval * a.sum_interval)
       < DispersionNum * DispersionNum * (a.count_interval - 1)
         * a.sum_interval * a.sum_interval

\* the HAVING clause
Having(a) ==
    /\ a.count >= MinIntervalCount
    /\ a.count_interval >= 1
    /\ MinAvgInterval * a.count_interval <= a.sum_interval
    /\ a.sum_interval <= MaxAvgInterval * a.count_interval
    /\ StddevBelow(a)

\* a row of merchant_stats
StatsRow(a) ==
    [merchant |-> a.merchant,
     avg_amount |-> Rat(a.sum_amount, a.count),
     occurrence_count |-> a.count + 1,
     avg_interval |-> Rat(a.sum_interval, a.count_interval),
     last_charge |-> a.max_date,
     first_charge |-> a.min_date]

merchant_stats(txs, nulls) ==
    LET I == merchant_intervals(txs, nulls)
        A == {Aggregates(m, I) : m \in {r.merchant : r \in I}}
    IN  {StatsRow(a) : a \in {b \in A : Having(b)}}

\* ORDER BY avg_amount * (365.0 / avg_interval) DESC
SortKey(row) ==
    RatMul(row.avg_amount, RatDiv(Rat(DaysPerYear, 1), row.avg_interval))

\* the orders in which a set R of rows may come back: descending by the sort
\* key, rows of equal key in any order (the ORDER BY names no further column)
Ordered(R) ==
    LET n == Cardinality(R)
    IN  {s \in [1..n -> R] :
            /\ \A i, j \in 1..n : i # j => s[i] # s[j]
            /\ \A i \in 1..n : i < n => ~RatLess(SortKey(s[i]), SortKey(s[i+1]))}

NullOrders == {"first", "last"}

\* what the query may return
QueryResults(txs) == UNION {Ordered(merchant_stats(txs, nulls)) : nulls \in NullOrders}

----------------------------------------------------------------------------
(* rows.map(...) of detectSubscriptions *)

\* (faulty variant of Frequency: every threshold exclusive)
FrequencyStrict(intervalDays) ==
    IF intervalDays < 8 THEN "weekly"
    ELSE IF intervalDays < 16 THEN "bi-weekly"
    ELSE IF intervalDays < 35 THEN "monthly"
    ELSE IF intervalDays < 100 THEN "quarterly"
    ELSE IF intervalDays < 200 THEN "semi-annual"
    ELSE "annual"

Frequency(intervalDays) ==
    IF intervalDays <= 8 THEN "weekly"
    ELSE IF intervalDays <= 16 THEN "bi-weekly"
    ELSE IF intervalDays <= 35 THEN "monthly"
    ELSE IF intervalDays <= 100 THEN "quarterly"
    ELSE IF intervalDays <= 200 THEN "semi-annual"
    ELSE "annual"

\* (faulty variant of AnnualCost: computed from the rounded amount)
AnnualCostOfRounded(avg_amount, intervalDays) ==
    MathRound(Rat(MathRound(avg_amount) * DaysPerYear, intervalDays))

\* Math.round(avg_amount * (365 / intervalDays) * 100) / 100, in cents
AnnualCost(avg_amount, intervalDays) ==
    MathRound(RatMul(avg_amount, Rat(DaysPerYear, intervalDays)))

MapRow(row, hidden) ==
    LET intervalDays == MathRound(row.avg_interval)
    IN  [merchant |-> row.merchant,
         amount |-> MathRound(row.avg_amount),
         frequency |-> Frequency(intervalDays),
         interval_days |-> intervalDays,
         occurrence_count |-> row.occurrence_count,
         annual_cost |-> AnnualCost(row.avg_amount, intervalDays),
         last_charge |-> row.last_charge,
         first_charge |-> row.first_charge,
         is_hidden |-> row.merchant \in hidden]

MapRows(rows, hidden) == [i \in 1..Len(rows) |-> MapRow(rows[i], hidden)]

----------------------------------------------------------------------------
(* The ledgers the specifications read *)

TxRow(d, a, date) == [description |-> d, amount |-> a, transaction_date |-> date]

RowsOf(L, d) == {t \in L : t.description = d}

\* The ledger L with one more row of description d: dated day 0 when it is
\* the first of d, and g days after the latest row of d otherwise (one row
\* per description and day).
Extend(L, d, a, g) ==
    IF RowsOf(L, d) = {} THEN L \cup {TxRow(d, a, 0)}
    ELSE L \cup {TxRow(d, a, MaxOf({t.transaction_date : t \in RowsOf(L, d)}) + g)}

\* A history of one description: n rows, each an <<amount, gap>> pair; the
\* first row has amount a and gap 0, row i > 1 is rest[i].
History(n, a, rest) == [i \in 1..n |-> IF i = 1 THEN <<a, 0>> ELSE rest[i]]

\* the date of the i-th row of history h: day 0, then gap after gap
RECURSIVE DateAt(_, _)
DateAt(h, i) == IF i = 1 THEN 0 ELSE DateAt(h, i - 1) + h[i][2]

\* the rows of description d with history h
LedgerOf(d, h) == {TxRow(d, h[i][1], DateAt(h, i)) : i \in 1..Len(h)}

\* SpecClassify: one merchant, one amount, gaps on both sides of every
\* threshold of the HAVING clause and of the frequency table
GapsClassify == {4, 5, 8, 9, 10, 15, 16, 17, 29, 30, 31, 35, 36, 60,
                 100, 101, 200, 201, 400, 401}

\* SpecCost: one merchant, charges of several amounts and a deposit
AmountsCost == {-1500, -1000, -975, 2500}
GapsCost == {30, 31}

\* SpecRank: three merchants, two of them near-duplicate descriptions
MerchantsRank == {"SPOTIFY USA", "SPOTIFY USA 2", "NETFLIX"}
AmountsRank == {-1000, -975}
GapsRank == {30, 31}

\* SpecMalformed: one merchant, and the rows that lack a description (NULL
\* or empty) or a date
AmountsMalformed == {-4000, -1000}
GapsMalformed == {30, 31}
MalformedRows ==
    {TxRow(NullDescription, -1000, 15), TxRow("", -1000, 15),
     TxRow("GYM", -1000, NULL), TxRow(NullDescription, -1000, NULL)}

----------------------------------------------------------------------------
(* State after construction *)

NoToast == "none"
AtPc(pc) == [pc |-> pc, rows |-> {}]
NothingDetected == [txs |-> {}, hidden |-> {}]

InitComponent ==
    /\ store = <<>>
    /\ hiddenMerchants = {}
    /\ subscriptions = <<>>
    /\ isLoading = TRUE
    /\ mountPc = AtPc("created")
    /\ runs = <<>>
    /\ calls = <<>>
    /\ toast = NoToast
    /\ emitted = 0
    /\ detectedOn = NothingDetected

----------------------------------------------------------------------------
(* detectSubscriptions run to its end with nothing interleaved: the query  *)
(* reads the ledger, rows.map builds the records, finally clears isLoading *)

Detect ==
    /\ \E rows \in QueryResults(transactions) :
          subscriptions' = MapRows(rows, hiddenMerchants)
    /\ isLoading' = FALSE
    /\ detectedOn' = [txs |-> transactions, hidden |-> hiddenMerchants]
    /\ UNCHANGED <<emitted, transactions, store, hiddenMerchants, mountPc, runs,
                   calls, toast>>

\* transactions holds a history of at most k rows of description d
OneMerchantLedger(d, amounts, gaps, k) ==
    \E n \in 0..k :
    \E a \in IF n = 0 THEN {0} ELSE amounts :
    \E rest \in [2..n -> amounts \X gaps] :
        transactions = LedgerOf(d, History(n, a, rest))

InitClassify ==
    /\ OneMerchantLedger("GYM", {-4000}, GapsClassify, MaxCharges)
    /\ InitComponent

InitCost ==
    /\ OneMerchantLedger("GYM", AmountsCost, GapsCost, MaxCostRows)
    /\ InitComponent

\* a history of each of the three merchants, at most MaxPerMerchant rows of
\* one merchant and MaxRankRows rows in all
InitRank ==
    /\ \E n1 \in 0..MaxPerMerchant :
       \E n2 \in 0..MaxPerMerchant :
       \E n3 \in 0..MaxPerMerchant :
          /\ n1 + n2 + n3 <= MaxRankRows
          /\ \E a1 \in IF n1 = 0 THEN {0} ELSE AmountsRank :
             \E a2 \in IF n2 = 0 THEN {0} ELSE AmountsRank :
             \E a3 \in IF n3 = 0 THEN {0} ELSE AmountsRank :
             \E r1 \in [2..n1 -> AmountsRank \X GapsRank] :
             \E r2 \in [2..n2 -> AmountsRank \X GapsRank] :
             \E r3 \in [2..n3 -> AmountsRank \X GapsRank] :
                transactions = LedgerOf("SPOTIFY USA", History(n1, a1, r1))
                                 \cup LedgerOf("SPOTIFY USA 2", History(n2, a2, r2))
                                 \cup LedgerOf("NETFLIX", History(n3, a3, r3))
    /\ InitComponent

\* a history of GYM and at most one row that lacks its description, its date
\* or both
InitMalformed ==
    /\ \E n \in 0..MaxMalformedCharges :
       \E a \in IF n = 0 THEN {0} ELSE AmountsMalformed :
       \E rest \in [2..n -> AmountsMalformed \X GapsMalformed] :
       \E bad \in {{}} \cup {{t} : t \in MalformedRows} :
          transactions = LedgerOf("GYM", History(n, a, rest)) \cup bad
    /\ InitComponent

NextDetect == Detect

SpecClassify == InitClassify /\ [][NextDetect]_vars
SpecCost == InitCost /\ [][NextDetect]_vars
SpecRank == InitRank /\ [][NextDetect]_vars
SpecMalformed == InitMalformed /\ [][NextDetect]_vars

----------------------------------------------------------------------------
(* What the claims speak of, computed from the ledger itself *)

RECURSIVE Ascending(_)
Ascending(S) ==
    IF S = {} THEN <<>>
    ELSE <<MinOf(S)>> \o Ascending(S \ {MinOf(S)})

RECURSIVE SeqSum(_)
SeqSum(q) == IF q = <<>> THEN 0 ELSE Head(q) + SeqSum(Tail(q))

\* the charges of merchant m, and their dates in chronological order
ChargesOf(txs, m) == {t \in txs : t.description = m /\ t.amount < 0}
ChargeDates(txs, m) == Ascending({t.transaction_date : t \in ChargesOf(txs, m)})

\* the day-gaps between consecutive charges of m
GapsOf(txs, m) ==
    LET d == ChargeDates(txs, m)
    IN  [i \in 1..(Len(d) - 1) |-> d[i+1] - d[i]]

\* the absolute amounts of the charges of m, in chronological order
AmountsOf(txs, m) ==
    LET d == ChargeDates(txs, m)
    IN  [i \in 1..Len(d) |->
            Abs((CHOOSE t \in ChargesOf(txs, m) : t.transaction_date = d[i]).amount)]

\* the mean gap, rounded to the nearest day (halves up)
RoundedMean(g) == (2 * SeqSum(g) + Len(g)) \div (2 * Len(g))

\* the acceptance rule on a gap sequence g: at least 2 gaps, mean within
\* 5..400, and standard deviation below 0.3 of the mean, the deviation being
\* sqrt(sum (g[i] - mean)^2 / (n - 1))
Regular(g) ==
    LET n == Len(g)
        S == SeqSum(g)
        dev == [i \in 1..n |-> (n * g[i] - S) * (n * g[i] - S)]
    IN  /\ n >= 2
        /\ 5 * n <= S
        /\ S <= 400 * n
        /\ 100 * SeqSum(dev) < 9 * (n - 1) * S * S

Merchants(txs) == {t.description : t \in txs}
Records == {subscriptions[i] : i \in DOMAIN subscriptions}
RecordsOf(m) == {r \in Records : r.merchant = m}

\* subscriptions holds the result of a run over the present ledger
Detected == detectedOn.txs = transactions /\ transactions # {}

\* C1: a merchant has a record iff its gaps number at least 2, their mean is
\* within 5..400 days and their standard deviation is below 0.3 of the mean;
\* gaps 30,31,29 are accepted as monthly and gaps 10,60,15 are rejected.
C1_AcceptanceRule ==
    \A m \in Merchants(detectedOn.txs) :
        LET g == GapsOf(detectedOn.txs, m)
        IN  /\ (RecordsOf(m) # {}) <=> Regular(g)
            /\ g = <<30, 31, 29>> =>
                  /\ RecordsOf(m) # {}
                  /\ \A r \in RecordsOf(m) : r.frequency = "monthly"
            /\ g = <<10, 60, 15>> => RecordsOf(m) = {}

C1_Witness ==
    /\ Detected
    /\ GapsOf(transactions, "GYM") = <<30, 31, 29>>
    /\ \E r \in RecordsOf("GYM") : r.frequency = "monthly"

\* C2: a merchant with 2 charges or fewer has no record.
C2_MinimumOccurrence ==
    \A m \in Merchants(detectedOn.txs) :
        Cardinality(ChargesOf(detectedOn.txs, m)) <= 2 => RecordsOf(m) = {}

C2_Witness ==
    /\ Detected
    /\ Cardinality(ChargesOf(transactions, "GYM")) = 2
    /\ Cardinality(RowsOf(transactions, "GYM")) = 3
    /\ subscriptions = <<>>

\* C3: the label of a record follows the table on the rounded mean gap d of
\* its merchant: weekly up to 8, bi-weekly 9..16, monthly 17..35, quarterly
\* 36..100, semi-annual 101..200, annual above; never "unknown".
C3_FrequencyLabel ==
    \A r \in Records :
        LET d == RoundedMean(GapsOf(detectedOn.txs, r.merchant))
        IN  /\ d <= 8 => r.frequency = "weekly"
            /\ (9 <= d /\ d <= 16) => r.frequency = "bi-weekly"
            /\ (17 <= d /\ d <= 35) => r.frequency = "monthly"
            /\ (36 <= d /\ d <= 100) => r.frequency = "quarterly"
            /\ (101 <= d /\ d <= 200) => r.frequency = "semi-annual"
            /\ d > 200 => r.frequency = "annual"
            /\ r.frequency # "unknown"

C3_Witness ==
    /\ Detected
    /\ \E r \in Records :
          /\ RoundedMean(GapsOf(transactions, r.merchant)) = 36
          /\ r.frequency = "quarterly"

\* C4 as claimed: annual_cost is the amount field times 365 / interval_days,
\* rounded to the cent.
C4_AnnualCostOfAmountField ==
    \A r \in Records :
        r.annual_cost = MathRound(Rat(r.amount * 365, r.interval_days))

\* C4 as amended: annual_cost is the unrounded mean amount the query returns
\* (the mean over the merchant's charges after its first) times
\* 365 / interval_days, rounded to the cent; 15.00 and 30 days give 182.50.
C4_AnnualCostOfMeanAmount ==
    \A r \in Records :
        LET a == Tail(AmountsOf(detectedOn.txs, r.merchant))
        IN  /\ r.annual_cost
                 = MathRound(Rat(SeqSum(a) * 365, Len(a) * r.interval_days))
            /\ (SeqSum(a) = 1500 * Len(a) /\ r.interval_days = 30)
                  => r.annual_cost = 18250

\* a record whose mean amount is no whole number of cents
C4_Witness ==
    /\ Detected
    /\ \E r \in Records :
          r.annual_cost # MathRound(Rat(r.amount * 365, r.interval_days))

\* C5: the amount field is the mean of the absolute amounts of all charges of
\* the merchant, the first included, rounded half-up to the cent.
C5_AmountIsMeanOfAllCharges ==
    \A r \in Records :
        LET a == AmountsOf(detectedOn.txs, r.merchant)
        IN  r.amount = (2 * SeqSum(a) + Len(a)) \div (2 * Len(a))

\* C6: subscriptions is ordered by non-increasing annual_cost.
C6_OrderedByAnnualCost ==
    \A i \in DOMAIN subscriptions :
        i < Len(subscriptions) =>
            subscriptions[i].annual_cost >= subscriptions[i+1].annual_cost

\* C7: a run over the ledger and hidden set that the preceding run read
\* yields the same list, in the same order.
C7_Deterministic ==
    [][(/\ detectedOn = [txs |-> transactions, hidden |-> hiddenMerchants]
        /\ detectedOn' = detectedOn)
          => subscriptions' = subscriptions]_vars

\* near-duplicate descriptions (similarity above the threshold)
NearDuplicate(a, b) ==
    \/ a = b
    \/ {a, b} = {"SPOTIFY USA", "SPOTIFY USA 2"}

\* C8: charges of near-duplicate descriptions form one cluster with one
\* record, which counts them all; dissimilar descriptions share no record.
C8_NearDuplicatesClustered ==
    /\ \A r, q \in Records : NearDuplicate(r.merchant, q.merchant) => r = q
    /\ \A r \in Records :
          r.occurrence_count
            = Cardinality({t \in detectedOn.txs :
                             t.amount < 0 /\ NearDuplicate(t.description, r.merchant)})

----------------------------------------------------------------------------
(* The override store, sys_plugin_subscriptions(merchant PRIMARY KEY,      *)
(* hidden_at)                                                              *)

StoreRow(m, at) == [merchant |-> m, hidden_at |-> at]

\* (faulty variant of Upsert: a plain INSERT into a table without the key)
InsertNoConflict(table, m) == Append(table, StoreRow(m, Now))

\* INSERT ... VALUES (m, NOW()) ON CONFLICT (merchant) DO UPDATE SET hidden_at = NOW()
Upsert(table, m) ==
    IF \E i \in DOMAIN table : table[i].merchant = m
    THEN [i \in DOMAIN table |->
            IF table[i].merchant = m THEN StoreRow(m, Now) ELSE table[i]]
    ELSE Append(table, StoreRow(m, Now))

\* DELETE FROM sys_plugin_subscriptions WHERE merchant = m
IsNot(m, r) == r.merchant # m
DeleteRow(table, m) == SelectSeq(table, LAMBDA r : IsNot(m, r))

\* SELECT merchant FROM sys_plugin_subscriptions WHERE hidden_at IS NOT NULL
SelectHidden(table) ==
    {table[i].merchant : i \in {j \in DOMAIN table : table[j].hidden_at # NULL}}

\* the sequence q without its i-th element
RemoveAt(q, i) == [j \in 1..(Len(q) - 1) |-> IF j < i THEN q[j] ELSE q[j+1]]

----------------------------------------------------------------------------
(* onMount *)

\* a detectSubscriptions call up to its await: isLoading = true, query sent
StartRun ==
    /\ isLoading' = TRUE
    /\ runs' = Append(runs, [phase |-> "querying", rows |-> <<>>, txs |-> {},
                             superseded |-> FALSE])

\* onMount registers the onDataRefresh callback and awaits ensureTable
Mount ==
    /\ mountPc.pc = "created"
    /\ mountPc' = AtPc("ensureTable")
    /\ UNCHANGED <<emitted, transactions, store, hiddenMerchants, subscriptions,
                   isLoading, runs, calls, toast, detectedOn>>

\* CREATE TABLE IF NOT EXISTS settles (a failure is swallowed); onMount goes
\* on to loadHiddenMerchants, which sends its query
EnsureTableSettled ==
    /\ mountPc.pc = "ensureTable"
    /\ mountPc' = AtPc("loadHidden")
    /\ UNCHANGED <<emitted, transactions, store, hiddenMerchants, subscriptions,
                   isLoading, runs, calls, toast, detectedOn>>

\* the store answers the query of loadHiddenMerchants
LoadHiddenAnswer ==
    /\ mountPc.pc = "loadHidden"
    /\ mountPc' = [pc |-> "loadHiddenAnswered", rows |-> SelectHidden(store)]
    /\ UNCHANGED <<emitted, transactions, store, hiddenMerchants, subscriptions,
                   isLoading, runs, calls, toast, detectedOn>>

\* ... or rejects it
LoadHiddenRejected ==
    /\ mountPc.pc = "loadHidden"
    /\ mountPc' = AtPc("loadHiddenRejected")
    /\ UNCHANGED <<emitted, transactions, store, hiddenMerchants, subscriptions,
                   isLoading, runs, calls, toast, detectedOn>>

\* loadHiddenMerchants assigns hiddenMerchants; onMount calls detectSubscriptions
LoadHiddenDone ==
    /\ mountPc.pc = "loadHiddenAnswered"
    /\ hiddenMerchants' = mountPc.rows
    /\ StartRun
    /\ mountPc' = AtPc("done")
    /\ UNCHANGED <<emitted, transactions, store, subscriptions, calls, toast,
                   detectedOn>>

\* the catch of loadHiddenMerchants swallows the failure; onMount calls
\* detectSubscriptions
LoadHiddenFailed ==
    /\ mountPc.pc = "loadHiddenRejected"
    /\ StartRun
    /\ mountPc' = AtPc("done")
    /\ UNCHANGED <<emitted, transactions, store, hiddenMerchants, subscriptions,
                   calls, toast, detectedOn>>

----------------------------------------------------------------------------
(* detectSubscriptions *)

\* the onDataRefresh callback, registered by onMount
DataRefresh ==
    /\ mountPc.pc # "created"
    /\ Len(runs) < MaxRuns
    /\ StartRun
    /\ UNCHANGED <<emitted, transactions, store, hiddenMerchants, subscriptions,
                   mountPc, calls, toast, detectedOn>>

\* the Refresh button
RefreshClick ==
    /\ mountPc.pc # "created"
    /\ Len(runs) < MaxRuns
    /\ StartRun
    /\ UNCHANGED <<emitted, transactions, store, hiddenMerchants, subscriptions,
                   mountPc, calls, toast, detectedOn>>

\* the database answers the query of run i from the ledger as it stands
QueryAnswer(i) ==
    /\ runs[i].phase = "querying"
    /\ \E rows \in QueryResults(transactions) :
          runs' = [runs EXCEPT ![i] =
                      [phase |-> "answered", rows |-> rows, txs |-> transactions,
                       superseded |-> runs[i].superseded]]
    /\ UNCHANGED <<emitted, transactions, store, hiddenMerchants, subscriptions,
                   isLoading, mountPc, calls, toast, detectedOn>>

\* ... or rejects it
QueryRejected(i) ==
    /\ runs[i].phase = "querying"
    /\ runs' = [runs EXCEPT ![i].phase = "rejected"]
    /\ UNCHANGED <<emitted, transactions, store, hiddenMerchants, subscriptions,
                   isLoading, mountPc, calls, toast, detectedOn>>

\* the runs q once run i has assigned subscriptions: the runs that started
\* before it (they stand before it in q) and are still in flight are marked
Supersede(q, i) ==
    [j \in DOMAIN q |-> IF j < i THEN [q[j] EXCEPT !.superseded = TRUE] ELSE q[j]]

\* run i resumes after its await: rows.map, then finally
DetectDone(i) ==
    /\ runs[i].phase = "answered"
    /\ subscriptions' = MapRows(runs[i].rows, hiddenMerchants)
    /\ isLoading' = FALSE
    /\ detectedOn' = [txs |-> runs[i].txs, hidden |-> hiddenMerchants]
    /\ runs' = RemoveAt(Supersede(runs, i), i)
    /\ UNCHANGED <<emitted, transactions, store, hiddenMerchants, mountPc,
                   calls, toast>>

\* run i resumes in its catch: the error toast, then finally
DetectFailed(i) ==
    /\ runs[i].phase = "rejected"
    /\ toast' = "Failed to detect subscriptions"
    /\ isLoading' = FALSE
    /\ runs' = RemoveAt(runs, i)
    /\ UNCHANGED <<emitted, transactions, store, hiddenMerchants, subscriptions,
                   mountPc, calls, detectedOn>>

----------------------------------------------------------------------------
(* hideSubscription and unhideSubscription *)

\* hideSubscription(m) up to its await: the INSERT is sent (at most cap calls
\* are in flight at once)
HideSubscription(m, cap) ==
    /\ Len(calls) < cap
    /\ calls' = Append(calls, [op |-> "hide", merchant |-> m, phase |-> "writing"])
    /\ UNCHANGED <<emitted, transactions, store, hiddenMerchants, subscriptions,
                   isLoading, mountPc, runs, toast, detectedOn>>

\* unhideSubscription(m) up to its await: the DELETE is sent
UnhideSubscription(m, cap) ==
    /\ Len(calls) < cap
    /\ calls' = Append(calls, [op |-> "unhide", merchant |-> m, phase |-> "writing"])
    /\ UNCHANGED <<emitted, transactions, store, hiddenMerchants, subscriptions,
                   isLoading, mountPc, runs, toast, detectedOn>>

\* the store executes the statement of call i
StoreWrite(i) ==
    /\ calls[i].phase = "writing"
    /\ store' = IF calls[i].op = "hide"
                THEN Upsert(store, calls[i].merchant)
                ELSE DeleteRow(store, calls[i].merchant)
    /\ calls' = [calls EXCEPT ![i].phase = "written"]
    /\ UNCHANGED <<emitted, transactions, hiddenMerchants, subscriptions,
                   isLoading, mountPc, runs, toast, detectedOn>>

\* ... or rejects it
StoreWriteRejected(i) ==
    /\ calls[i].phase = "writing"
    /\ calls' = [calls EXCEPT ![i].phase = "rejected"]
    /\ UNCHANGED <<emitted, transactions, store, hiddenMerchants, subscriptions,
                   isLoading, mountPc, runs, toast, detectedOn>>

\* hideSubscription resumes after its await
HideDone(i) ==
    /\ calls[i].op = "hide"
    /\ calls[i].phase = "written"
    /\ hiddenMerchants' = hiddenMerchants \cup {calls[i].merchant}
    /\ toast' = "Hidden"
    /\ calls' = RemoveAt(calls, i)
    /\ UNCHANGED <<emitted, transactions, store, subscriptions, isLoading,
                   mountPc, runs, detectedOn>>

\* (faulty variant of HideFailed: the set updated before the await and not
\* rolled back in the catch)
HideFailedOptimistic(i) ==
    /\ calls[i].op = "hide"
    /\ calls[i].phase = "rejected"
    /\ hiddenMerchants' = hiddenMerchants \cup {calls[i].merchant}
    /\ toast' = "Failed to hide"
    /\ calls' = RemoveAt(calls, i)
    /\ UNCHANGED <<emitted, transactions, store, subscriptions, isLoading,
                   mountPc, runs, detectedOn>>

\* hideSubscription resumes in its catch
HideFailed(i) ==
    /\ calls[i].op = "hide"
    /\ calls[i].phase = "rejected"
    /\ toast' = "Failed to hide"
    /\ calls' = RemoveAt(calls, i)
    /\ UNCHANGED <<emitted, transactions, store, hiddenMerchants, subscriptions,
                   isLoading, mountPc, runs, detectedOn>>

\* unhideSubscription resumes after its await
UnhideDone(i) ==
    /\ calls[i].op = "unhide"
    /\ calls[i].phase = "written"
    /\ hiddenMerchants' = hiddenMerchants \ {calls[i].merchant}
    /\ toast' = "Restored"
    /\ calls' = RemoveAt(calls, i)
    /\ UNCHANGED <<emitted, transactions, store, subscriptions, isLoading,
                   mountPc, runs, detectedOn>>

\* unhideSubscription resumes in its catch
UnhideFailed(i) ==
    /\ calls[i].op = "unhide"
    /\ calls[i].phase = "rejected"
    /\ toast' = "Failed to restore"
    /\ calls' = RemoveAt(calls, i)
    /\ UNCHANGED <<emitted, transactions, store, hiddenMerchants, subscriptions,
                   isLoading, mountPc, runs, detectedOn>>

----------------------------------------------------------------------------
(* The host *)

\* a charge is imported into the transactions table
ImportTransaction ==
    /\ Cardinality(transactions) < MaxLedgerRows
    /\ \E d \in MerchantsView, a \in {-1599}, g \in {30} :
          transactions' = Extend(transactions, d, a, g)
    /\ UNCHANGED <<emitted, store, hiddenMerchants, subscriptions, isLoading,
                   mountPc, runs, calls, toast, detectedOn>>

\* GYM charged -40 on 2024-01-01, 2024-02-01 and 2024-03-03, and two charges
\* of NETFLIX
LedgerAtMount ==
    {TxRow("GYM", -4000, DayNumber(2024, 1, 1)),
     TxRow("GYM", -4000, DayNumber(2024, 2, 1)),
     TxRow("GYM", -4000, DayNumber(2024, 3, 3)),
     TxRow("NETFLIX", -1599, DayNumber(2024, 1, 1)),
     TxRow("NETFLIX", -1599, DayNumber(2024, 1, 31))}

Init ==
    /\ transactions = LedgerAtMount
    /\ InitComponent

Next ==
    \/ Mount
    \/ EnsureTableSettled
    \/ LoadHiddenAnswer
    \/ LoadHiddenRejected
    \/ LoadHiddenDone
    \/ LoadHiddenFailed
    \/ DataRefresh
    \/ RefreshClick
    \/ \E i \in DOMAIN runs : QueryAnswer(i)
    \/ \E i \in DOMAIN runs : QueryRejected(i)
    \/ \E i \in DOMAIN runs : DetectDone(i)
    \/ \E i \in DOMAIN runs : DetectFailed(i)
    \/ \E m \in MerchantsView : HideSubscription(m, MaxCalls)
    \/ \E m \in MerchantsView : UnhideSubscription(m, MaxCalls)
    \/ \E i \in DOMAIN calls : StoreWrite(i)
    \/ \E i \in DOMAIN calls : StoreWriteRejected(i)
    \/ \E i \in DOMAIN calls : HideDone(i)
    \/ \E i \in DOMAIN calls : HideFailed(i)
    \/ \E i \in DOMAIN calls : UnhideDone(i)
    \/ \E i \in DOMAIN calls : UnhideFailed(i)
    \/ ImportTransaction

Spec == Init /\ [][Next]_vars

\* The view with its user hiding and restoring merchants, and no refresh
\* beyond the run of onMount.
NextOverride ==
    \/ Mount
    \/ EnsureTableSettled
    \/ LoadHiddenAnswer
    \/ LoadHiddenRejected
    \/ LoadHiddenDone
    \/ LoadHiddenFailed
    \/ \E i \in DOMAIN runs : QueryAnswer(i)
    \/ \E i \in DOMAIN runs : QueryRejected(i)
    \/ \E i \in DOMAIN runs : DetectDone(i)
    \/ \E i \in DOMAIN runs : DetectFailed(i)
    \/ \E m \in MerchantsView : HideSubscription(m, MaxOverrideCalls)
    \/ \E m \in MerchantsView : UnhideSubscription(m, MaxOverrideCalls)
    \/ \E i \in DOMAIN calls : StoreWrite(i)
    \/ \E i \in DOMAIN calls : StoreWriteRejected(i)
    \/ \E i \in DOMAIN calls : HideDone(i)
    \/ \E i \in DOMAIN calls : HideFailed(i)
    \/ \E i \in DOMAIN calls : UnhideDone(i)
    \/ \E i \in DOMAIN calls : UnhideFailed(i)

SpecOverride == Init /\ [][NextOverride]_vars

\* The buttons of a table row (rendered when isLoading is false and the list
\* is not empty): Hide for a merchant not in hiddenMerchants, Restore for one
\* that is (its row shows when "Show hidden" is ticked).
HideClick(m) ==
    /\ ~isLoading
    /\ RecordsOf(m) # {}
    /\ m \notin hiddenMerchants
    /\ HideSubscription(m, MaxClickCalls)

RestoreClick(m) ==
    /\ ~isLoading
    /\ RecordsOf(m) # {}
    /\ m \in hiddenMerchants
    /\ UnhideSubscription(m, MaxClickCalls)

\* The view driven through its buttons, the override store readable at mount.
NextView ==
    \/ Mount
    \/ EnsureTableSettled
    \/ LoadHiddenAnswer
    \/ LoadHiddenDone
    \/ DataRefresh
    \/ RefreshClick
    \/ \E i \in DOMAIN runs : QueryAnswer(i)
    \/ \E i \in DOMAIN runs : QueryRejected(i)
    \/ \E i \in DOMAIN runs : DetectDone(i)
    \/ \E i \in DOMAIN runs : DetectFailed(i)
    \/ \E m \in MerchantsView : HideClick(m)
    \/ \E m \in MerchantsView : RestoreClick(m)
    \/ \E i \in DOMAIN calls : StoreWrite(i)
    \/ \E i \in DOMAIN calls : StoreWriteRejected(i)
    \/ \E i \in DOMAIN calls : HideDone(i)
    \/ \E i \in DOMAIN calls : HideFailed(i)
    \/ \E i \in DOMAIN calls : UnhideDone(i)
    \/ \E i \in DOMAIN calls : UnhideFailed(i)

SpecView == Init /\ [][NextView]_vars

\* A run whose query has settled resumes after its await (the event loop
\* runs the continuation of a settled promise).
Resume == \E i \in DOMAIN runs : DetectDone(i) \/ DetectFailed(i)

\* The view with its runs only: onMount, the signal and the Refresh button.
NextLoading ==
    \/ Mount
    \/ EnsureTableSettled
    \/ LoadHiddenAnswer
    \/ LoadHiddenRejected
    \/ LoadHiddenDone
    \/ LoadHiddenFailed
    \/ DataRefresh
    \/ RefreshClick
    \/ \E i \in DOMAIN runs : QueryAnswer(i)
    \/ \E i \in DOMAIN runs : QueryRejected(i)
    \/ \E i \in DOMAIN runs : DetectDone(i)
    \/ \E i \in DOMAIN runs : DetectFailed(i)

SpecLoading == Init /\ [][NextLoading]_vars /\ WF_vars(Resume)

----------------------------------------------------------------------------
(* The derived values of the view *)

Shown(showHidden, s) == showHidden \/ s.merchant \notin hiddenMerchants
NotHidden(s) == s.merchant \notin hiddenMerchants

\* subscriptions.filter(s => showHidden || !hiddenMerchants.has(s.merchant))
visibleSubscriptions(showHidden) ==
    SelectSeq(subscriptions, LAMBDA s : Shown(showHidden, s))

\* visibleSubscriptions.filter(s => !hiddenMerchants.has(s.merchant))
activeSubscriptions(showHidden) ==
    SelectSeq(visibleSubscriptions(showHidden), LAMBDA s : NotHidden(s))

\* .reduce((sum, s) => sum + s.annual_cost, 0), in cents
totalAnnualCost(showHidden) ==
    LET a == activeSubscriptions(showHidden)
    IN  SeqSum([i \in DOMAIN a |-> a[i].annual_cost])

\* totalAnnualCost / 12
totalMonthlyCost(showHidden) == Rat(totalAnnualCost(showHidden), 12)

\* the "Active Subscriptions" card
activeCount(showHidden) == Len(activeSubscriptions(showHidden))

\* "Show hidden ({hiddenMerchants.size})"
hiddenCount == Cardinality(hiddenMerchants)

----------------------------------------------------------------------------
(* Hiding and restoring *)

StoreRowsOf(table, m) == {i \in DOMAIN table : table[i].merchant = m}

\* C9: a hide of a merchant leaves exactly one store row for it, and none is
\* added when it had one; hiding a merchant already in hiddenMerchants
\* leaves hiddenMerchants as it is; an unhide of a merchant with no row and
\* not in hiddenMerchants changes neither and ends in no error toast.
C9_HideUnhideIdempotent ==
    [][\A i \in DOMAIN calls :
          LET m == calls[i].merchant
          IN  /\ (StoreWrite(i) /\ calls[i].op = "hide") =>
                    /\ Cardinality(StoreRowsOf(store', m)) = 1
                    /\ StoreRowsOf(store, m) # {} => Len(store') = Len(store)
              /\ (HideDone(i) /\ m \in hiddenMerchants) =>
                    hiddenMerchants' = hiddenMerchants
              /\ (StoreWrite(i) /\ calls[i].op = "unhide"
                    /\ StoreRowsOf(store, m) = {}) =>
                    store' = store
              /\ (UnhideDone(i) /\ m \notin hiddenMerchants) =>
                    /\ hiddenMerchants' = hiddenMerchants
                    /\ toast' = "Restored"]_vars

\* a second hide of GYM has been written, GYM being hidden already: the
\* store holds one row for it
C9_Witness ==
    /\ "GYM" \in hiddenMerchants
    /\ Cardinality(StoreRowsOf(store, "GYM")) = 1
    /\ \E i \in DOMAIN calls :
          calls[i] = [op |-> "hide", merchant |-> "GYM", phase |-> "written"]

\* C10: every record's is_hidden tells whether its merchant is in the hidden
\* set, so the record of a merchant just hidden says is_hidden = true.
C10_IsHiddenTracksHiddenSet ==
    \A r \in Records : r.is_hidden = (r.merchant \in hiddenMerchants)

----------------------------------------------------------------------------
(* Failures *)

\* C11: a run whose query failed ends with subscriptions empty and the
\* failure reported; no record of an earlier run is left in subscriptions.
C11_FailedRunClearsRecords ==
    [][\A i \in DOMAIN runs :
          DetectFailed(i) =>
              /\ subscriptions' = <<>>
              /\ toast' = "Failed to detect subscriptions"]_vars

\* C12: a hide or unhide whose write failed leaves hiddenMerchants as it was
\* and ends in its error toast; a hide or unhide changes hiddenMerchants only
\* in the step that follows the store's execution of its statement.
C12_NoOptimisticUpdate ==
    [][/\ \A i \in DOMAIN calls :
             /\ HideFailed(i) =>
                   hiddenMerchants' = hiddenMerchants /\ toast' = "Failed to hide"
             /\ UnhideFailed(i) =>
                   hiddenMerchants' = hiddenMerchants /\ toast' = "Failed to restore"
       /\ hiddenMerchants' # hiddenMerchants =>
             \/ LoadHiddenDone
             \/ \E i \in DOMAIN calls :
                   /\ calls[i].phase = "written"
                   /\ HideDone(i) \/ UnhideDone(i)]_vars

\* a hide of GYM has failed: GYM is neither in the store nor in hiddenMerchants
C12_Witness ==
    /\ toast = "Failed to hide"
    /\ calls = <<>>
    /\ store = <<>>
    /\ "GYM" \notin hiddenMerchants

\* C13: when the read of the override store fails, the run of onMount still
\* starts, over the override set as it stood (no override read), and the
\* failure is reported.
C13_UnreadableStoreReported ==
    [][LoadHiddenFailed =>
          /\ Len(runs') = Len(runs) + 1
          /\ hiddenMerchants' = hiddenMerchants
          /\ toast' # toast]_vars

----------------------------------------------------------------------------
(* Signals and interleavings *)

\* C14: a data-refresh signal starts a detection run, and the step that
\* completes a successful hide or unhide sends a data-refresh notification.
C14_SignalsInAndOut ==
    [][/\ DataRefresh => Len(runs') = Len(runs) + 1
       /\ \A i \in DOMAIN calls :
             (HideDone(i) \/ UnhideDone(i)) => emitted' = emitted + 1]_vars

\* C15: no run builds its records (rows.map reading hiddenMerchants) before
\* loadHiddenMerchants has completed.
C15_OverridesReadBeforeJoin ==
    [][\A i \in DOMAIN runs : DetectDone(i) => mountPc.pc = "done"]_vars

----------------------------------------------------------------------------
(* Malformed rows *)

\* the rows that have both a description and a date
WellFormed(txs) ==
    {t \in txs : /\ t.description # NullDescription
                 /\ t.description # ""
                 /\ t.transaction_date # NULL}

\* C16: the list is what detectSubscriptions yields over the well-formed rows
\* alone: a row without description or date changes no record and no field,
\* occurrence_count included.
C16_MalformedRowsExcluded ==
    subscriptions \in {MapRows(rows, detectedOn.hidden) :
                          rows \in QueryResults(WellFormed(detectedOn.txs))}

----------------------------------------------------------------------------
(* Aggregates *)

IsHidden(s) == s.is_hidden
IsActive(s) == ~s.is_hidden

\* C17: whatever "Show hidden" is set to, the totals and counts follow from
\* the record list alone: total annual cost is the sum of annual_cost over
\* the records with is_hidden false, total monthly cost is that sum over 12,
\* unrounded, the active count is the number of records with is_hidden false
\* and the hidden count the number with is_hidden true.
C17_AggregatesOfRecordList ==
    LET active == SelectSeq(subscriptions, LAMBDA s : IsActive(s))
        hidden == SelectSeq(subscriptions, LAMBDA s : IsHidden(s))
        sum == SeqSum([i \in DOMAIN active |-> active[i].annual_cost])
    IN  \A showHidden \in BOOLEAN :
            /\ totalAnnualCost(showHidden) = sum
            /\ totalMonthlyCost(showHidden) = Rat(sum, 12)
            /\ activeCount(showHidden) = Len(active)
            /\ hiddenCount = Len(hidden)

----------------------------------------------------------------------------
(* The GYM scenario *)

\* the ledger read held three charges of -40 by GYM, dated 2024-01-01,
\* 2024-02-01 and 2024-03-03
GymScenario ==
    RowsOf(detectedOn.txs, "GYM")
      = {TxRow("GYM", -4000, DayNumber(2024, 1, 1)),
         TxRow("GYM", -4000, DayNumber(2024, 2, 1)),
         TxRow("GYM", -4000, DayNumber(2024, 3, 3))}

\* C18 as claimed: the gaps are (31, 30), GYM is accepted as monthly and its
\* annual_cost is 478.69.
C18_GymAsClaimed ==
    GymScenario =>
        /\ GapsOf(detectedOn.txs, "GYM") = <<31, 30>>
        /\ RecordsOf("GYM") # {}
        /\ \A r \in RecordsOf("GYM") :
              r.frequency = "monthly" /\ r.annual_cost = 47869

\* C18 as amended: the gaps are (31, 31) (February 2024 has 29 days), the
\* mean is 31, GYM is accepted as monthly and its annual_cost is 470.97.
C18_GymAsComputed ==
    GymScenario =>
        /\ GapsOf(detectedOn.txs, "GYM") = <<31, 31>>
        /\ RecordsOf("GYM") # {}
        /\ \A r \in RecordsOf("GYM") :
              /\ r.interval_days = 31
              /\ r.frequency = "monthly"
              /\ r.amount = 4000
              /\ r.occurrence_count = 3
              /\ r.annual_cost = 47097

C18_Witness ==
    /\ GymScenario
    /\ \E r \in RecordsOf("GYM") : r.frequency = "monthly"

----------------------------------------------------------------------------
(* Overlapping calls *)

\* C19: a run that started before the run whose result subscriptions holds
\* does not assign subscriptions: the result of the later run stays.
C19_LaterRunWins ==
    [][\A i \in DOMAIN runs : DetectDone(i) => ~runs[i].superseded]_vars

\* C20: with onMount past its read of the store and no hide or unhide call in
\* flight, hiddenMerchants is the set of merchants the store holds with a
\* hidden_at.
C20_HiddenSetMatchesStore ==
    (mountPc.pc = "done" /\ calls = <<>>) => hiddenMerchants = SelectHidden(store)

----------------------------------------------------------------------------
(* The fields and the spinner *)

\* C21: first_charge is the date of the merchant's earliest charge,
\* last_charge the date of its latest, occurrence_count the number of its
\* charges.
C21_FirstLastAndCount ==
    \A r \in Records :
        LET d == ChargeDates(detectedOn.txs, r.merchant)
        IN  /\ r.first_charge = d[1]
            /\ r.last_charge = d[Len(d)]
            /\ r.occurrence_count = Len(d)

\* a run is awaiting its query
InFlight == \E i \in DOMAIN runs : runs[i].phase = "querying"

\* onMount has started its run and the query of every started run has settled
AllSettled ==
    /\ mountPc.pc = "done"
    /\ \A i \in DOMAIN runs : runs[i].phase # "querying"

\* C22: isLoading is true while a run awaits its query, and once the query
\* of every started run has settled isLoading becomes false.
C22_LoadingTracksRuns ==
    /\ [](InFlight => isLoading)
    /\ [](AllSettled => <>(~isLoading))

====
